---- MODULE Spec2Model ----
(***************************************************************************)
(* Model of preprocess.py (ForwardTacotron): the per-file feature          *)
(* extractor Preprocessor.__call__ / _convert_file, the batched            *)
(* ProcessPoolExecutor driver of __main__ and the dataset assembly         *)
(* (sort, seeded shuffle, split, validation sort, persist).                *)
(***************************************************************************)
EXTENDS Integers, Sequences, FiniteSets, TLC

\* ------------------------------------------------------------------ bounds
MaxFiles == 3      \* longest filtered wav_files list
MaxId == 2         \* distinct filename stems (item ids), ordered as strings are
MaxMel == 2        \* distinct mel lengths
MaxBatch == 2      \* largest --batch_size
MaxWorkers == 2    \* largest --num_workers
MaxNVal == 2       \* largest config n_val
MaxTeardownErrors == 1  \* most pool shutdowns that raise in one run
MaxWavLen == 4     \* most samples of a waveform

\* ------------------------------------------------------------------ values
Ids == 1..MaxId
MelLens == 1..MaxMel
VocModes == {"RAW", "MOL", "INVALID"}

\* a wav file of the list: its stem (path.stem) and the time dimension of the
\* mel spectrogram wav_to_mel computes from it
FileKinds == [item_id : Ids, mel_len : MelLens]

VARIABLES
    wav_files,      \* filtered file list (line 112)
    n_val,          \* config['preprocessing']['n_val']
    batch_size,     \* args.batch_size: the number it denotes
    batch_size_type, \* args.batch_size: "int" (parser default) or "str" (given)
    n_workers,      \* max(1, args.num_workers)
    voc_mode,       \* dsp.voc_mode
    drv,            \* position of __main__
    x,              \* batch index of the for loop (line 140)
    i,              \* results of the current batch consumed by the map loop
    pool,           \* the ProcessPoolExecutor of the current batch: "none" or "open"
    leaked,         \* earlier pools still alive because their shutdown raised
    logged,         \* shutdown errors written to the log
    wpc,            \* per file: position of its extraction task
    result,         \* per file: what __call__ handed back to pool.map
    disk,           \* per item id: which file's mel / quant / pitch is stored
    dataset,        \* list of (item_id, mel_len)
    cleaned_texts,  \* list of (item_id, text)
    train_dataset,
    val_dataset,
    saved,          \* the three dataset-level pickles
    err,            \* exception that ended __main__, or "none"
    dsp,            \* DSP profile of the call followed sample by sample
    wav,            \* samples stored in the file that call reads
    y,              \* the waveform local to _convert_file
    cpc,            \* the step of _convert_file that call is about to run
    mel_in,         \* what wav_to_mel was given
    pitch_in,       \* what pw.dio was given
    quant           \* the quantizer call made

vars == <<wav_files, n_val, batch_size, batch_size_type, n_workers, voc_mode, drv, x, i, pool,
          leaked, logged, wpc, result, disk, dataset, cleaned_texts,
          train_dataset, val_dataset, saved, err,
          dsp, wav, y, cpc, mel_in, pitch_in, quant>>

\* the variables of the sample-level walk through one _convert_file call
dspvars == <<dsp, wav, y, cpc, mel_in, pitch_in, quant>>

\* the variables of the driver, its workers and the storage
runvars == <<drv, x, i, pool, leaked, logged, wpc, result, disk, dataset,
             cleaned_texts, train_dataset, val_dataset, saved, err>>

config == <<wav_files, n_val, batch_size, batch_size_type, n_workers, voc_mode>>

\* ------------------------------------------------------------------ helpers
NFiles == Len(wav_files)
Files == 1..NFiles

\* text_dict after the filter of lines 110-112: exactly the stems of wav_files
text_dict == {wav_files[f].item_id : f \in Files}

\* the cleaned transcript of an item (cleaner is pure)
CleanText(id) == <<"clean", id>>

\* line 138: math.ceil(len(wav_files) / int(batch_size)); int() accepts the
\* default as well as the digits given on the command line
batch_amount == (NFiles + batch_size - 1) \div batch_size

\* line 96: --batch_size is declared without type=, so a value given on the
\* command line stays a str. Lines 144-146: x*batch_size is then a repetition
\* of that str and the slice wav_files[start:finish] raises TypeError
SliceRaises == batch_size_type = "str"

\* lines 144-146 for an int batch_size: wav_files[start:finish] as 1-based
\* positions
start == x * batch_size
finish == (x + 1) * batch_size
Min(a, b) == IF a < b THEN a ELSE b
wav_files_batch == {f \in Files : start < f /\ f <= finish}
BatchLen == Cardinality(wav_files_batch)

\* a DataPoint whose mel_len is read back from the mel stored under the item id
DPFromDisk(f) ==
    LET id == wav_files[f].item_id
        w == IF disk[id].mel = 0 THEN f ELSE disk[id].mel
    IN  [item_id |-> id, mel_len |-> wav_files[w].mel_len, text |-> CleanText(id)]

\* DataPoint fields that reach the driver
DP(f) == [item_id |-> wav_files[f].item_id, mel_len |-> wav_files[f].mel_len,
          text |-> CleanText(wav_files[f].item_id)]

\* ---------------------------------------------------------- pure functions
\* tuple order of (item_id, mel_len): list.sort() of line 162
TupleLeq(a, b) == a[1] < b[1] \/ (a[1] = b[1] /\ a[2] <= b[2])

RECURSIVE InsertAsc(_, _)
InsertAsc(s, e) ==
    IF s = <<>> THEN <<e>>
    ELSE IF TupleLeq(Head(s), e) THEN <<Head(s)>> \o InsertAsc(Tail(s), e)
    ELSE <<e>> \o s

\* a list left in the order the results were aggregated in
NoSort(s) == s

RECURSIVE SortDataset(_)
SortDataset(s) ==
    IF s = <<>> THEN <<>>
    ELSE InsertAsc(SortDataset(SubSeq(s, 1, Len(s) - 1)), s[Len(s)])

\* a key that sorts shortest first
ValKeyAscending(d) == d[2]

\* key of line 168: lambda d: -d[1]
ValKey(d) == 0 - d[2]

RECURSIVE InsertByKey(_, _)
InsertByKey(s, e) ==
    IF s = <<>> THEN <<e>>
    ELSE IF ValKey(Head(s)) <= ValKey(e) THEN <<Head(s)>> \o InsertByKey(Tail(s), e)
    ELSE <<e>> \o s

\* stable sort by ValKey (list.sort is stable)
RECURSIVE SortVal(_)
SortVal(s) ==
    IF s = <<>> THEN <<>>
    ELSE InsertByKey(SortVal(SubSeq(s, 1, Len(s) - 1)), s[Len(s)])

\* Random(42): the values _randbelow(i+1) returns for i = n-1 down to 1 when a
\* list of n elements is shuffled (Mersenne Twister seeded with 42)
RandBelow42(n) ==
    CASE n <= 1 -> <<>>
      [] n = 2 -> <<0>>
      [] n = 3 -> <<2, 0>>
      [] n = 4 -> <<0, 0, 1>>
      [] n = 5 -> <<0, 0, 2, 1>>
      [] n = 6 -> <<5, 0, 0, 2, 1>>
      [] n = 7 -> <<5, 0, 0, 2, 0, 0>>

Swap(s, a, b) == [s EXCEPT ![a] = s[b], ![b] = s[a]]

\* random.shuffle: for i in reversed(range(1, n)): j = randbelow(i+1); swap
RECURSIVE ShuffleFrom(_, _, _)
ShuffleFrom(s, js, k) ==
    IF k > Len(js) THEN s
    ELSE ShuffleFrom(Swap(s, Len(s) - k + 1, js[k] + 1), js, k + 1)

Shuffle(s) == ShuffleFrom(s, RandBelow42(Len(s)), 1)

\* Python slices s[n:] and s[:n] for n >= 0
SliceFrom(s, n) == SubSeq(s, Min(n, Len(s)) + 1, Len(s))
SliceTo(s, n) == SubSeq(s, 1, Min(n, Len(s)))


\* ------------------------------------------------------------- the extractor
\* a call that lets the exception escape to pool.map
OnExceptionReraise(e) == "raised"

\* lines 56-58: except Exception: print(e); return None
OnException(e) == "none"

\* the exceptions lines 62-82 of _convert_file can raise for file f, by the step
\* raising them; line 78 raises at the quantization step whenever voc_mode is
\* neither RAW nor MOL, line 81 raises when the stem is no key of text_dict
ConvertRaises(f) ==
    {"trim_long_silences", "trim_silence", "peak_norm", "wav_to_mel", "dio", "quant"}
    \cup (IF voc_mode \in {"RAW", "MOL"} /\ wav_files[f].item_id \notin text_dict
          THEN {"text_lookup"} ELSE {})
    \cup (IF voc_mode \in {"RAW", "MOL"} /\ wav_files[f].item_id \in text_dict
          THEN {"cleaner"} ELSE {})

\* _convert_file reaches its return statement (line 84)
ConvertReturns(f) ==
    voc_mode \in {"RAW", "MOL"} /\ wav_files[f].item_id \in text_dict

\* tasks a worker process is executing
Busy == {f \in Files : wpc[f] \in {"loaded", "save_mel", "save_quant", "save_pitch"}}

\* __call__ ends for file f handing r to pool.map
Finish(f, r) ==
    /\ wpc' = [wpc EXCEPT ![f] = "done"]
    /\ result' = [result EXCEPT ![f] = r]

\* a free worker takes the next queued task; line 61 reads the waveform
Load(f) ==
    /\ wpc[f] = "queued"
    /\ \A g \in Files : g < f => wpc[g] # "queued"
    /\ Cardinality(Busy) < n_workers
    /\ \/ /\ wpc' = [wpc EXCEPT ![f] = "loaded"]
          /\ UNCHANGED result
       \/ Finish(f, OnException("load_wav"))
    /\ UNCHANGED <<config, dspvars, drv, x, i, pool, leaked, logged, disk, dataset, cleaned_texts,
                   train_dataset, val_dataset, saved, err>>

\* lines 62-89: the rest of _convert_file, on the worker's own copy of the data
Convert(f) ==
    /\ wpc[f] = "loaded"
    /\ \/ \E s \in ConvertRaises(f) : Finish(f, OnException(s))
       \/ /\ ConvertReturns(f)
          /\ wpc' = [wpc EXCEPT ![f] = "save_mel"]
          /\ UNCHANGED result
    /\ UNCHANGED <<config, dspvars, drv, x, i, pool, leaked, logged, disk, dataset, cleaned_texts,
                   train_dataset, val_dataset, saved, err>>

\* np.save of one artifact of file f under its item id
Stored(f, kind) ==
    LET id == wav_files[f].item_id IN
    [disk EXCEPT ![id] = [disk[id] EXCEPT ![kind] = f]]

\* line 52
SaveMel(f) ==
    /\ wpc[f] = "save_mel"
    /\ \/ /\ disk' = Stored(f, "mel")
          /\ wpc' = [wpc EXCEPT ![f] = "save_quant"]
          /\ UNCHANGED result
       \/ /\ Finish(f, OnException("save_mel"))
          /\ UNCHANGED disk
    /\ UNCHANGED <<config, dspvars, drv, x, i, pool, leaked, logged, dataset, cleaned_texts,
                   train_dataset, val_dataset, saved, err>>

\* line 53
SaveQuant(f) ==
    /\ wpc[f] = "save_quant"
    /\ \/ /\ disk' = Stored(f, "quant")
          /\ wpc' = [wpc EXCEPT ![f] = "save_pitch"]
          /\ UNCHANGED result
       \/ /\ Finish(f, OnException("save_quant"))
          /\ UNCHANGED disk
    /\ UNCHANGED <<config, dspvars, drv, x, i, pool, leaked, logged, dataset, cleaned_texts,
                   train_dataset, val_dataset, saved, err>>

\* lines 54-55
SavePitch(f) ==
    /\ wpc[f] = "save_pitch"
    /\ \/ /\ disk' = Stored(f, "pitch")
          /\ Finish(f, "dp")
       \/ /\ Finish(f, OnException("save_pitch"))
          /\ UNCHANGED disk
    /\ UNCHANGED <<config, dspvars, drv, x, i, pool, leaked, logged, dataset, cleaned_texts,
                   train_dataset, val_dataset, saved, err>>

\* ---------------------------------------------------------------- the driver
Abort(e) ==
    /\ drv' = "Aborted"
    /\ err' = e

\* lines 140-148: the loop test, a new pool (line 142), the slice of the batch
\* (lines 144-146) and the batch handed to pool.map; an executor still open when
\* the name pool is rebound stays alive, and so does the one just created when
\* the slice raises
StartBatch ==
    /\ drv = "Idle"
    /\ x < batch_amount
    /\ pool' = "open"
    /\ leaked' = IF pool = "open" THEN leaked + 1 ELSE leaked
    /\ IF SliceRaises
       THEN /\ Abort("TypeError")
            /\ UNCHANGED <<wpc, i>>
       ELSE /\ wpc' = [f \in Files |-> IF f \in wav_files_batch THEN "queued" ELSE wpc[f]]
            /\ i' = 0
            /\ drv' = "BatchRunning"
            /\ UNCHANGED err
    /\ UNCHANGED <<config, dspvars, x, logged, result, disk, dataset, cleaned_texts,
                   train_dataset, val_dataset, saved>>

\* the membership test alone, without the test for None
KeepsWithoutNoneTest(f) == wav_files[f].item_id \in text_dict

\* line 149
Keeps(f) == result[f] = "dp" /\ DP(f).item_id \in text_dict

\* an entry that carries the length in the place of the item id
DatasetEntryLenFirst(f) == <<DP(f).mel_len, DP(f).item_id>>

\* line 150: the entry dataset gets
DatasetEntry(f) == <<DP(f).item_id, DP(f).mel_len>>

\* line 151: the entry cleaned_texts gets
TextEntry(f) == <<DP(f).item_id, DP(f).text>>

\* lines 148-154: pool.map yields the result of the next position of the batch
\* once it is there, re-raising in the driver what the call raised
Aggregate ==
    /\ drv = "BatchRunning"
    /\ i < BatchLen
    /\ LET f == start + i + 1 IN
       /\ result[f] # "pending"
       /\ IF result[f] = "raised"
          THEN /\ Abort("extract")
               /\ UNCHANGED <<i, dataset, cleaned_texts>>
          ELSE /\ dataset' = IF Keeps(f)
                             THEN Append(dataset, DatasetEntry(f))
                             ELSE dataset
               /\ cleaned_texts' = IF Keeps(f)
                                   THEN Append(cleaned_texts, TextEntry(f))
                                   ELSE cleaned_texts
               /\ i' = i + 1
               /\ drv' = IF i + 1 = BatchLen THEN "BatchDraining" ELSE "BatchRunning"
               /\ UNCHANGED err
    /\ UNCHANGED <<config, dspvars, x, pool, leaked, logged, wpc, result, disk,
                   train_dataset, val_dataset, saved>>

\* a shutdown error that is not caught
ShutdownNotHandled == FALSE

\* lines 159-160: except Exception around pool.shutdown
ShutdownHandled == TRUE

\* line 160 names logging and traceback, which preprocess.py does not import
\* itself: they reach it through the star imports of utils.display and utils.dsp
LoggingResolves == TRUE

\* line 158: the executor once shutdown(wait=True) has returned
PoolAfterShutdown == "none"

\* lines 156-160: shutdown(wait=True) blocks until the batch's tasks are done and
\* releases the pool; when it raises, the pool may or may not have been released
ShutdownPool ==
    /\ drv = "BatchDraining"
    /\ \A f \in wav_files_batch : wpc[f] = "done"
    /\ \/ /\ pool' = PoolAfterShutdown
          /\ x' = x + 1
          /\ drv' = "Idle"
          /\ UNCHANGED <<leaked, logged, err>>
       \/ /\ logged < MaxTeardownErrors
          /\ IF ShutdownHandled /\ LoggingResolves
             THEN /\ logged' = logged + 1
                  /\ pool' = "none"
                  /\ leaked' \in {leaked, leaked + 1}
                  /\ x' = x + 1
                  /\ drv' = "Idle"
                  /\ UNCHANGED err
             ELSE /\ Abort(IF ShutdownHandled THEN "NameError" ELSE "shutdown")
                  /\ UNCHANGED <<x, pool, leaked, logged>>
    /\ UNCHANGED <<config, dspvars, i, wpc, result, disk, dataset, cleaned_texts,
                   train_dataset, val_dataset, saved>>

\* a loop that is left as soon as one batch has been processed
LoopExitAfterFirstBatch ==
    /\ drv = "Idle"
    /\ x >= Min(1, batch_amount)
    /\ drv' = "Assemble"
    /\ UNCHANGED <<config, dspvars, x, i, pool, leaked, logged, wpc, result, disk, dataset,
                   cleaned_texts, train_dataset, val_dataset, saved, err>>

\* line 140: range(batch_amount) is exhausted
LoopExit ==
    /\ drv = "Idle"
    /\ x >= batch_amount
    /\ drv' = "Assemble"
    /\ UNCHANGED <<config, dspvars, x, i, pool, leaked, logged, wpc, result, disk, dataset,
                   cleaned_texts, train_dataset, val_dataset, saved, err>>

\* lines 165-166
TrainSplit(d) == SliceFrom(d, n_val)
ValSplit(d) == SliceTo(d, n_val)

\* the text dictionary of line 112, whatever pairs were collected
DictOfTextDict(pairs) == [id \in text_dict |-> CleanText(id)]

\* line 171: a dict built from the pairs, a later pair replacing an earlier one
RECURSIVE DictOf(_)
DictOf(pairs) ==
    IF pairs = <<>> THEN <<>>
    ELSE LET rest == DictOf(SubSeq(pairs, 1, Len(pairs) - 1))
             last == pairs[Len(pairs)]
         IN  [k \in DOMAIN rest \cup {last[1]} |->
                 IF k = last[1] THEN last[2] ELSE rest[k]]

\* lines 162-169: sort, shuffle, split, validation sort, and the print of the
\* first validation sample, which raises IndexError on an empty validation list
Assemble ==
    /\ drv = "Assemble"
    /\ LET shuffled == Shuffle(SortDataset(dataset))
           val == SortVal(ValSplit(shuffled))
       IN  /\ dataset' = shuffled
           /\ train_dataset' = TrainSplit(shuffled)
           /\ val_dataset' = val
           /\ IF val = <<>>
              THEN Abort("IndexError")
              ELSE /\ drv' = "PersistText"
                   /\ UNCHANGED err
    /\ UNCHANGED <<config, dspvars, x, i, pool, leaked, logged, wpc, result, disk,
                   cleaned_texts, saved>>

\* lines 171-173
PersistText ==
    /\ drv = "PersistText"
    /\ saved' = [saved EXCEPT !.text_dict = <<DictOf(cleaned_texts)>>]
    /\ drv' = "PersistTrain"
    /\ UNCHANGED <<config, dspvars, x, i, pool, leaked, logged, wpc, result, disk, dataset,
                   cleaned_texts, train_dataset, val_dataset, err>>

\* line 174
PersistTrain ==
    /\ drv = "PersistTrain"
    /\ saved' = [saved EXCEPT !.train = <<train_dataset>>]
    /\ drv' = "PersistVal"
    /\ UNCHANGED <<config, dspvars, x, i, pool, leaked, logged, wpc, result, disk, dataset,
                   cleaned_texts, train_dataset, val_dataset, err>>

\* lines 175-177
PersistVal ==
    /\ drv = "PersistVal"
    /\ saved' = [saved EXCEPT !.val = <<val_dataset>>]
    /\ drv' = "Done"
    /\ UNCHANGED <<config, dspvars, x, i, pool, leaked, logged, wpc, result, disk, dataset,
                   cleaned_texts, train_dataset, val_dataset, err>>

\* ---------------------------------------------------------- specification
\* the state of __main__ at line 137, for every filtered file list and config;
\* the int batch_size is the parser default (500), scaled down to the lists of
\* at most MaxFiles files so that a list still spans several batches
Init ==
    /\ wav_files \in UNION {[1..n -> FileKinds] : n \in 0..MaxFiles}
    /\ n_val \in 0..MaxNVal
    /\ batch_size \in 1..MaxBatch
    /\ batch_size_type \in {"int", "str"}
    /\ n_workers \in 1..MaxWorkers
    /\ voc_mode \in VocModes
    /\ drv = "Idle"
    /\ x = 0
    /\ i = 0
    /\ pool = "none"
    /\ leaked = 0
    /\ logged = 0
    /\ wpc = [f \in 1..Len(wav_files) |-> "unsubmitted"]
    /\ result = [f \in 1..Len(wav_files) |-> "pending"]
    /\ disk = [id \in Ids |-> [mel |-> 0, quant |-> 0, pitch |-> 0]]
    /\ dataset = <<>>
    /\ cleaned_texts = <<>>
    /\ train_dataset = <<>>
    /\ val_dataset = <<>>
    /\ saved = [text_dict |-> <<>>, train |-> <<>>, val |-> <<>>]
    /\ err = "none"
    /\ dsp = [should_trim_long_silences |-> FALSE, should_trim_start_end_silence |-> FALSE,
              should_peak_norm |-> FALSE, mu_law |-> FALSE, bits |-> 9]
    /\ wav = <<>>
    /\ y = <<>>
    /\ cpc = "idle"
    /\ mel_in = <<>>
    /\ pitch_in = <<>>
    /\ quant = <<>>

Next ==
    \/ StartBatch
    \/ \E f \in Files : Load(f)
    \/ \E f \in Files : Convert(f)
    \/ \E f \in Files : SaveMel(f)
    \/ \E f \in Files : SaveQuant(f)
    \/ \E f \in Files : SavePitch(f)
    \/ Aggregate
    \/ ShutdownPool
    \/ LoopExit
    \/ Assemble
    \/ PersistText
    \/ PersistTrain
    \/ PersistVal

Spec == Init /\ [][Next]_vars

\* ------------------------------------------- one _convert_file call on samples
\* 1.0 in the fixed-point unit the samples are counted in (line 67 compares the
\* peak with 1.0)
Unit == 12

\* a float sample: a finite number of Units, or what a division by zero leaves
Num(v) == [kind |-> "num", v |-> v]
NaN == [kind |-> "nan", v |-> 0]
Inf(sign) == [kind |-> "inf", v |-> sign]

SampleVals == {0 - 24, 0, 6}
Waveforms == UNION {[1..n -> {Num(v) : v \in SampleVals}] : n \in 0..MaxWavLen}
DspProfiles ==
    [should_trim_long_silences : BOOLEAN, should_trim_start_end_silence : BOOLEAN,
     should_peak_norm : BOOLEAN, mu_law : BOOLEAN, bits : {9, 16}]

IsZero(s) == s.kind = "num" /\ s.v = 0
AbsVal(v) == IF v < 0 THEN 0 - v ELSE v

\* the samples of w at the positions in S, from position k on, in order
RECURSIVE KeepAt(_, _, _)
KeepAt(w, S, k) ==
    IF k > Len(w) THEN <<>>
    ELSE (IF k \in S THEN <<w[k]>> ELSE <<>>) \o KeepAt(w, S, k + 1)

\* dsp.trim_long_silences: drops the interior runs of two or more silent samples
TrimLongSilences(w) ==
    LET InRun(k) == /\ IsZero(w[k])
                    /\ \/ k > 1 /\ IsZero(w[k - 1])
                       \/ k < Len(w) /\ IsZero(w[k + 1])
        Sound(a, b) == \E k \in a..b : ~IsZero(w[k])
        Interior(k) == Sound(1, k - 1) /\ Sound(k + 1, Len(w))
        Keep(k) == ~(InRun(k) /\ Interior(k))
    IN  KeepAt(w, {k \in 1..Len(w) : Keep(k)}, 1)

\* dsp.trim_silence: drops the leading and the trailing silent samples
TrimSilence(w) ==
    LET Keep(k) == (\E a \in 1..k : ~IsZero(w[a])) /\ (\E b \in k..Len(w) : ~IsZero(w[b]))
    IN  KeepAt(w, {k \in 1..Len(w) : Keep(k)}, 1)

\* line 66: np.abs(y).max() of a non-empty waveform
RECURSIVE Peak(_)
Peak(w) ==
    IF Len(w) = 1 THEN AbsVal(w[1].v)
    ELSE LET p == Peak(Tail(w)) IN IF AbsVal(w[1].v) > p THEN AbsVal(w[1].v) ELSE p

\* float division of a sample by the peak: 0/0 is NaN, x/0 is +-Infinity
Div(s, peak) ==
    IF peak = 0
    THEN (IF s.v = 0 THEN NaN ELSE Inf(IF s.v > 0 THEN 1 ELSE 0 - 1))
    ELSE Num((IF s.v < 0 THEN 0 - 1 ELSE 1) * ((AbsVal(s.v) * Unit) \div peak))

\* lines 66-68
PeakNorm(w, should_peak_norm) ==
    LET peak == Peak(w)
    IN  IF should_peak_norm \/ peak > Unit
        THEN [k \in 1..Len(w) |-> Div(w[k], peak)]
        ELSE w

\* 2**b
RECURSIVE Pow2(_)
Pow2(b) == IF b = 0 THEN 1 ELSE 2 * Pow2(b - 1)

\* a selection that quantizes at the configured bits in MOL mode too
QuantizerConfiguredBits(mode, mu_law, bits) ==
    IF mode \in {"RAW", "MOL"}
    THEN (IF mode = "RAW" /\ mu_law THEN <<"encode_mu_law", Pow2(bits)>>
          ELSE <<"float_2_label", bits>>)
    ELSE <<>>

\* lines 72-78: the quantizer called and its argument; <<>> when line 78 raises
Quantizer(mode, mu_law, bits) ==
    IF mode = "RAW"
    THEN (IF mu_law THEN <<"encode_mu_law", Pow2(bits)>> ELSE <<"float_2_label", bits>>)
    ELSE IF mode = "MOL" THEN <<"float_2_label", 16>>
    ELSE <<>>

\* line 61
DspLoad ==
    /\ cpc = "load_wav"
    /\ y' = wav
    /\ cpc' = "trim_long_silences"
    /\ UNCHANGED <<config, runvars, dsp, wav, mel_in, pitch_in, quant>>

\* lines 62-63
DspTrimLong ==
    /\ cpc = "trim_long_silences"
    /\ y' = IF dsp.should_trim_long_silences THEN TrimLongSilences(y) ELSE y
    /\ cpc' = "trim_silence"
    /\ UNCHANGED <<config, runvars, dsp, wav, mel_in, pitch_in, quant>>

\* lines 64-65
DspTrim ==
    /\ cpc = "trim_silence"
    /\ y' = IF dsp.should_trim_start_end_silence THEN TrimSilence(y) ELSE y
    /\ cpc' = "peak_norm"
    /\ UNCHANGED <<config, runvars, dsp, wav, mel_in, pitch_in, quant>>

\* lines 66-68; max() of an empty array raises ValueError
DspPeakNorm ==
    /\ cpc = "peak_norm"
    /\ IF y = <<>>
       THEN /\ cpc' = "raised"
            /\ UNCHANGED y
       ELSE /\ y' = PeakNorm(y, dsp.should_peak_norm)
            /\ cpc' = "wav_to_mel"
    /\ UNCHANGED <<config, runvars, dsp, wav, mel_in, pitch_in, quant>>

\* line 69
DspMel ==
    /\ cpc = "wav_to_mel"
    /\ mel_in' = y
    /\ cpc' = "dio"
    /\ UNCHANGED <<config, runvars, dsp, wav, y, pitch_in, quant>>

\* lines 70-71
DspPitch ==
    /\ cpc = "dio"
    /\ pitch_in' = y
    /\ cpc' = "quant"
    /\ UNCHANGED <<config, runvars, dsp, wav, y, mel_in, quant>>

\* lines 72-78
DspQuant ==
    /\ cpc = "quant"
    /\ quant' = Quantizer(voc_mode, dsp.mu_law, dsp.bits)
    /\ cpc' = IF Quantizer(voc_mode, dsp.mu_law, dsp.bits) = <<>> THEN "raised" ELSE "text"
    /\ UNCHANGED <<config, runvars, dsp, wav, y, mel_in, pitch_in>>

\* lines 80-89: the stem, the cleaned text and the DataPoint
DspReturn ==
    /\ cpc = "text"
    /\ cpc' = "returned"
    /\ UNCHANGED <<config, runvars, dsp, wav, y, mel_in, pitch_in, quant>>

\* one call of _convert_file, for every profile, vocoder mode and waveform
DspInit ==
    /\ wav_files = <<>>
    /\ n_val = 0
    /\ batch_size = 1
    /\ batch_size_type = "int"
    /\ n_workers = 1
    /\ voc_mode \in VocModes
    /\ drv = "Idle"
    /\ x = 0
    /\ i = 0
    /\ pool = "none"
    /\ leaked = 0
    /\ logged = 0
    /\ wpc = <<>>
    /\ result = <<>>
    /\ disk = [id \in Ids |-> [mel |-> 0, quant |-> 0, pitch |-> 0]]
    /\ dataset = <<>>
    /\ cleaned_texts = <<>>
    /\ train_dataset = <<>>
    /\ val_dataset = <<>>
    /\ saved = [text_dict |-> <<>>, train |-> <<>>, val |-> <<>>]
    /\ err = "none"
    /\ dsp \in DspProfiles
    /\ wav \in Waveforms
    /\ y = <<>>
    /\ cpc = "load_wav"
    /\ mel_in = <<>>
    /\ pitch_in = <<>>
    /\ quant = <<>>

DspNext ==
    \/ DspLoad
    \/ DspTrimLong
    \/ DspTrim
    \/ DspPeakNorm
    \/ DspMel
    \/ DspPitch
    \/ DspQuant
    \/ DspReturn

DspSpec == DspInit /\ [][DspNext]_vars

\* ------------------------------------------------------------------ claims
\* __main__ has left the batch loop
LoopLeft ==
    \/ drv \in {"Assemble", "PersistText", "PersistTrain", "PersistVal", "Done"}
    \/ drv = "Aborted" /\ err = "IndexError"

\* the (item_id, mel_len) pairs of the files among the first n whose call
\* returned a DataPoint, in file order
RECURSIVE Succeeded(_)
Succeeded(n) ==
    IF n = 0 THEN <<>>
    ELSE IF result[n] = "dp"
         THEN Append(Succeeded(n - 1), <<wav_files[n].item_id, wav_files[n].mel_len>>)
         ELSE Succeeded(n - 1)

Count(s, e) == Cardinality({k \in 1..Len(s) : s[k] = e})

\* C1: whatever step of an extraction fails, the call hands None (never an
\* exception) to the driver, the driver is never ended by an extraction error,
\* every file of a batch has been processed when the batch is drained and every
\* file of the list when the loop is left.
C1_ExtractionFailureContained ==
    /\ \A f \in Files : result[f] \in {"pending", "none", "dp"}
    /\ \A f \in Files : wpc[f] = "done" <=> result[f] \in {"none", "dp"}
    /\ err # "extract"
    /\ drv = "BatchDraining" => \A f \in wav_files_batch : result[f] \in {"none", "dp"}
    /\ LoopLeft => \A f \in Files : result[f] \in {"none", "dp"}

\* C1 witness: the first file failed after its mel was written, and the second
\* file of the same batch and the file of the next batch were still extracted.
C1_Witness ==
    /\ drv = "Done"
    /\ batch_size = 2
    /\ NFiles = 3
    /\ result[1] = "none"
    /\ disk[wav_files[1].item_id].mel = 1
    /\ result[2] = "dp"
    /\ result[3] = "dp"

\* C2: after a completed run the two persisted manifests together hold each
\* successfully extracted file's pair exactly once (as bags) and nothing else,
\* so their sizes add up to the number of successful extractions.
C2_ManifestsPartitionSuccesses ==
    drv = "Done" =>
        LET train == saved.train[1]
            val == saved.val[1]
            ok == Succeeded(NFiles)
        IN  /\ Len(train) + Len(val) = Cardinality({f \in Files : result[f] = "dp"})
            /\ \A e \in Ids \X MelLens :
                  Count(train, e) + Count(val, e) = Count(ok, e)

\* C2 witness: a completed run over two batches in which one file failed and
\* both manifests are non-empty.
C2_Witness ==
    /\ drv = "Done"
    /\ x = 2
    /\ \E f \in Files : result[f] = "none"
    /\ Len(saved.train[1]) >= 1
    /\ Len(saved.val[1]) >= 1

\* C3: the persisted manifests are the split of the seeded shuffle of the sorted
\* list of the successful files' pairs: a function of the file list, the
\* per-file outcomes and n_val alone, whatever the order in which the workers
\* ran, wrote and completed.
C3_ManifestsIndependentOfInterleaving ==
    drv = "Done" =>
        LET ref == Shuffle(SortDataset(Succeeded(NFiles)))
        IN  /\ saved.train[1] = SliceFrom(ref, n_val)
            /\ saved.val[1] = SortVal(SliceTo(ref, n_val))

\* C3 witness: two workers extracted the first two files in parallel and the
\* second file's mel write came before the first file's, its pitch write after.
C3_Witness ==
    /\ drv = "Done"
    /\ n_workers = 2
    /\ NFiles >= 2
    /\ result[1] = "dp"
    /\ result[2] = "dp"
    /\ wav_files[1].item_id = wav_files[2].item_id
    /\ wav_files[1].mel_len # wav_files[2].mel_len
    /\ disk[wav_files[1].item_id].mel = 1
    /\ disk[wav_files[1].item_id].pitch = 2
    /\ saved.train[1] # <<>>

\* every entry of a manifest carries the length of the mel stored under its id
MelLenMatches(m) ==
    \A k \in 1..Len(m) :
        /\ disk[m[k][1]].mel # 0
        /\ wav_files[disk[m[k][1]].mel].mel_len = m[k][2]

\* C4: at the end of a run every manifest entry's mel_len is the length of the
\* mel persisted under its item_id, also when files share an item_id.
C4_MelLenMatchesPersistedMel ==
    drv = "Done" => MelLenMatches(saved.train[1]) /\ MelLenMatches(saved.val[1])

\* C5: when n_val exceeds the number of extracted items the run ends with a
\* ConfigError once the loop is left, and persists no manifest.
C5_NValTooLargeIsConfigError ==
    (n_val > Cardinality({f \in Files : result[f] = "dp"})
        /\ x = batch_amount
        /\ drv \in {"PersistText", "PersistTrain", "PersistVal", "Done", "Aborted"}) =>
        /\ drv = "Aborted"
        /\ err = "ConfigError"
        /\ saved.train = <<>>
        /\ saved.val = <<>>

\* C6: with a vocoder mode that is neither RAW nor MOL nothing is dispatched: no
\* pool is created, no task is queued or run, no file is loaded, no artifact is
\* written, and the run can only end with a ConfigError.
C6_InvalidVocModeAbortsBeforeDispatch ==
    (voc_mode \notin {"RAW", "MOL"} /\ err # "TypeError") =>
        /\ pool = "none"
        /\ x = 0
        /\ \A f \in Files : wpc[f] = "unsubmitted"
        /\ \A id \in Ids : disk[id] = [mel |-> 0, quant |-> 0, pitch |-> 0]
        /\ drv \in {"Idle", "Aborted"}
        /\ drv = "Aborted" => err = "ConfigError"

\* C8: the persisted validation manifest is sorted by mel_len, longest first.
C8_ValSortedLongestFirst ==
    saved.val # <<>> =>
        \A k \in 1..(Len(saved.val[1]) - 1) :
            saved.val[1][k][2] >= saved.val[1][k + 1][2]

\* C8 witness: a persisted validation manifest of two entries of different
\* length which the shuffle had left shortest first.
C8_Witness ==
    /\ saved.val # <<>>
    /\ Len(saved.val[1]) = 2
    /\ saved.val[1][1][2] > saved.val[1][2][2]
    /\ SliceTo(dataset, n_val) # saved.val[1]

Finite(w) == \A k \in 1..Len(w) : w[k].kind = "num"

\* C7: peak normalization never divides by a zero peak: no NaN or Infinity sample
\* is ever in the waveform or handed to the mel, pitch or quantization step.
C7_NoNonFiniteSample ==
    /\ Finite(y)
    /\ Finite(mel_in)
    /\ Finite(pitch_in)

\* files whose result the map loop has consumed
Consumed ==
    IF drv \in {"BatchRunning", "BatchDraining"} THEN start + i ELSE Min(start, NFiles)

InFlight == {"queued", "loaded", "save_mel", "save_quant", "save_pitch"}

\* only the current batch's extractions run, and only while its pool is open
BatchesDoNotOverlap ==
    /\ pool = "open" <=> drv \in {"BatchRunning", "BatchDraining"}
    /\ \A f \in Files :
          wpc[f] \in InFlight => drv = "BatchRunning" /\ f \in wav_files_batch
    /\ \A f \in Files : f <= start => wpc[f] = "done"
    /\ \A f \in Files : f > finish => wpc[f] = "unsubmitted"
    /\ drv = "Idle" => \A f \in Files : f > start => wpc[f] = "unsubmitted"
    /\ drv = "BatchDraining" => \A f \in wav_files_batch : wpc[f] = "done"

\* Idle, BatchRunning, BatchDraining once per batch, then the loop is left
DriverCycle ==
    /\ drv \in {"Idle", "BatchRunning", "BatchDraining"} \/ LoopLeft
    /\ x <= batch_amount
    /\ drv \in {"BatchRunning", "BatchDraining"} => x < batch_amount
    /\ drv = "BatchRunning" => i < BatchLen
    /\ drv = "BatchDraining" => i = BatchLen
    /\ LoopLeft => x = batch_amount
    /\ drv \in {"Idle", "BatchRunning", "BatchDraining"} => ENABLED Next

PoolsAlive == (IF pool = "open" THEN 1 ELSE 0) + leaked

\* C9: batches never overlap, the driver cycles Idle, BatchRunning,
\* BatchDraining once per batch until the loop is left, and at most one worker
\* pool exists at any time.
C9_AtMostOnePoolEver ==
    /\ BatchesDoNotOverlap
    /\ DriverCycle
    /\ PoolsAlive <= 1

\* C10: a shutdown that raises never ends the run: the error is logged, the
\* driver goes on to the next batch or to the assembly, and the results
\* aggregated so far are all kept.
C10_TeardownErrorTolerated ==
    /\ err \notin {"shutdown", "NameError"}
    /\ logged > 0 /\ drv = "Aborted" => err = "IndexError"
    /\ logged > 0 => x >= 1
    /\ drv = "Idle" => ENABLED StartBatch \/ ENABLED LoopExit
    /\ drv \in {"Idle", "BatchRunning", "BatchDraining", "Assemble"} =>
          /\ dataset = Succeeded(Consumed)
          /\ Len(cleaned_texts) = Len(dataset)

\* C10 witness: the shutdown of the first batch's pool raised, the second batch
\* was processed all the same and the run completed with every file's entry.
C10_Witness ==
    /\ drv = "Done"
    /\ logged = 1
    /\ leaked = 1
    /\ x = 2
    /\ NFiles = 3
    /\ Len(saved.train[1]) + Len(saved.val[1]) = 3

\* some dataset-level pickle has been written
ManifestExists == saved.text_dict # <<>> \/ saved.train # <<>> \/ saved.val # <<>>

\* some batch has not been started yet, or is running or draining
BatchPending == x < batch_amount \/ drv \in {"BatchRunning", "BatchDraining"}

\* C11: while some batch is pending or running, and until the loop is left with
\* every file of the list processed, none of the three dataset-level pickles
\* exists; a run that ended in the loop or in the assembly left none.
C11_NoManifestBeforeAllBatches ==
    /\ BatchPending => ~ManifestExists
    /\ ManifestExists =>
          /\ x = batch_amount
          /\ drv \in {"PersistTrain", "PersistVal", "Done"}
          /\ \A f \in Files : wpc[f] = "done"
    /\ drv \in {"Idle", "BatchRunning", "BatchDraining", "Assemble", "Aborted"} =>
          ~ManifestExists

\* C11 witness: the second of two batches is running, artifacts of the first
\* batch's items are on disk, and no dataset-level pickle exists.
C11_Witness ==
    /\ drv = "BatchRunning"
    /\ x = 1
    /\ batch_amount = 2
    /\ \E id \in Ids : disk[id].mel # 0 /\ disk[id].quant # 0 /\ disk[id].pitch # 0
    /\ ~ManifestExists

\* C12: when exactly two files share an item id and both were extracted, at the
\* end of the run the mel, the quantized waveform and the pitch stored under
\* that id are all the later file's.
C12_SecondExtractionWins ==
    drv = "Done" =>
        \A f, g \in Files :
            (/\ f < g
             /\ wav_files[f].item_id = wav_files[g].item_id
             /\ \A h \in Files \ {f, g} : wav_files[h].item_id # wav_files[f].item_id
             /\ result[f] = "dp"
             /\ result[g] = "dp") =>
                disk[wav_files[g].item_id] = [mel |-> g, quant |-> g, pitch |-> g]

\* C13: for every batch_size the driver runs ceil(len(wav_files) / batch_size)
\* batches: the run never ends before that many batches ran, the files handed
\* to the extractor so far are exactly those at the positions up to the end of
\* the current batch, and every file has been processed when the loop is left.
C13_EveryFileSubmittedOnce ==
    /\ drv = "Aborted" => x = batch_amount
    /\ drv \in {"BatchRunning", "BatchDraining"} =>
          \A f \in Files : wpc[f] # "unsubmitted" <=> f <= finish
    /\ drv = "Idle" => \A f \in Files : wpc[f] # "unsubmitted" <=> f <= start
    /\ LoopLeft => x = batch_amount /\ \A f \in Files : wpc[f] = "done"

\* Random(42).shuffle of a list of n elements: the position, before the
\* shuffle, of the element it leaves at each position (CPython 3.11)
Perm42(n) ==
    CASE n = 0 -> <<>>
      [] n = 1 -> <<1>>
      [] n = 2 -> <<2, 1>>
      [] n = 3 -> <<2, 1, 3>>
      [] n = 4 -> <<3, 2, 4, 1>>
      [] n = 5 -> <<4, 2, 3, 5, 1>>

\* the list line 164 was given, recovered from the list it left
Unshuffled ==
    LET n == Len(dataset)
    IN  [j \in 1..n |-> dataset[CHOOSE k \in 1..n : Perm42(n)[k] = j]]

\* C14: at the end of a run the list that was shuffled holds the aggregated
\* pairs ordered by item_id ascending, the train manifest is the seed-42 shuffle
\* of it without its first n_val entries, in shuffled order, and the validation
\* manifest holds exactly those first n_val entries.
C14_SplitOfSeededShuffleOfSortedList ==
    drv = "Done" =>
        LET n == Len(dataset)
            m == Min(n_val, n)
        IN  /\ n = Len(Succeeded(NFiles))
            /\ \A e \in Ids \X MelLens : Count(Unshuffled, e) = Count(Succeeded(NFiles), e)
            /\ \A j \in 1..(n - 1) : Unshuffled[j][1] <= Unshuffled[j + 1][1]
            /\ saved.train[1] = [k \in 1..(n - m) |-> dataset[m + k]]
            /\ Len(saved.val[1]) = m
            /\ \A e \in Ids \X MelLens :
                  Count(saved.val[1], e) = Cardinality({k \in 1..m : dataset[k] = e})

\* C14 witness: three files were aggregated with the larger item id first, and
\* the run persisted one validation entry and two train entries.
C14_Witness ==
    /\ drv = "Done"
    /\ Len(cleaned_texts) = 3
    /\ cleaned_texts[1][1] > cleaned_texts[2][1]
    /\ Len(saved.val[1]) = 1
    /\ Len(saved.train[1]) = 2

\* C15: as long as the loop runs, and until line 162 reorders dataset, the two
\* aggregated lists are parallel (same length, same item id at every position)
\* and hold, in file order, one entry for each consumed file whose call
\* returned a DataPoint, every one under an id of the text dictionary and with
\* that id's cleaned text.
C15_AggregatedListsParallel ==
    drv \in {"Idle", "BatchRunning", "BatchDraining", "Assemble"} =>
        /\ Len(dataset) = Len(cleaned_texts)
        /\ \A k \in 1..Len(dataset) :
              /\ dataset[k][1] = cleaned_texts[k][1]
              /\ dataset[k][1] \in text_dict
              /\ cleaned_texts[k][2] = CleanText(dataset[k][1])
        /\ dataset = Succeeded(Consumed)

\* C15 witness: with two workers, the second batch has been aggregated after a
\* first batch whose second file failed; the two entries are those of the first
\* and the third file, the larger item id first.
C15_Witness ==
    /\ drv = "BatchDraining"
    /\ x = 1
    /\ n_workers = 2
    /\ NFiles = 3
    /\ result = <<"dp", "none", "dp">>
    /\ Len(dataset) = 2
    /\ Len(cleaned_texts) = 2
    /\ dataset[1][1] > dataset[2][1]

\* the item ids of the entries of a manifest
IdsOf(m) == {m[k][1] : k \in 1..Len(m)}

\* C16: at the end of a run the keys of the persisted text dictionary are
\* exactly the item ids of the two persisted manifests, each with its cleaned
\* text; an id none of whose files was extracted, or that no file of the
\* filtered list carries, is no key.
C16_TextDictKeysAreManifestIds ==
    drv = "Done" =>
        LET d == saved.text_dict[1]
        IN  /\ DOMAIN d = IdsOf(saved.train[1]) \cup IdsOf(saved.val[1])
            /\ \A id \in DOMAIN d : d[id] = CleanText(id)
            /\ \A id \in Ids :
                  (\A f \in Files : wav_files[f].item_id = id => result[f] = "none")
                      => id \notin DOMAIN d

\* C16 witness: a completed run in which the only file of an id of the text
\* dictionary failed: the persisted dictionary lacks that id.
C16_Witness ==
    /\ drv = "Done"
    /\ \E f \in Files :
          /\ result[f] = "none"
          /\ wav_files[f].item_id \in text_dict
          /\ wav_files[f].item_id \notin DOMAIN saved.text_dict[1]
    /\ DOMAIN saved.text_dict[1] # {}

\* the call has passed the quantization step without raising
Quantized == cpc \in {"text", "returned"}

\* C17: the quantizer a call applies is a function of the vocoder mode, mu_law
\* and bits alone: mu-law with mu = 2^bits for RAW with mu_law, linear label at
\* bits for RAW without, linear label at 16 bits for MOL whatever bits and mu_law
\* are; with any other mode the call fails and nothing is quantized.
C17_QuantizerSelectedByModeMuLawBits ==
    /\ Quantized =>
          /\ voc_mode \in {"RAW", "MOL"}
          /\ voc_mode = "RAW" /\ dsp.mu_law => quant = <<"encode_mu_law", 2 ^ dsp.bits>>
          /\ voc_mode = "RAW" /\ ~dsp.mu_law => quant = <<"float_2_label", dsp.bits>>
          /\ voc_mode = "MOL" => quant = <<"float_2_label", 16>>
    /\ ~Quantized => quant = <<>>
    /\ voc_mode \notin {"RAW", "MOL"} => ~Quantized /\ cpc # "text"
    /\ cpc = "raised" /\ pitch_in # <<>> => voc_mode \notin {"RAW", "MOL"}

\* C17 witness: a MOL call configured with 9 bits and mu_law returned after
\* quantizing with the linear label at 16 bits.
C17_Witness ==
    /\ cpc = "returned"
    /\ voc_mode = "MOL"
    /\ dsp.bits = 9
    /\ dsp.mu_law
    /\ quant = <<"float_2_label", 16>>

\* C18: once the loop is left with n_val at most the number of extracted
\* items, the run is never ended by an exception, every step up to completion
\* can be taken, and a completed run has persisted all three pickles.
C18_AssemblyAlwaysCompletes ==
    (LoopLeft /\ n_val <= Cardinality({f \in Files : result[f] = "dp"})) =>
        /\ drv # "Aborted"
        /\ drv # "Done" => ENABLED Next
        /\ drv = "Done" =>
              saved.text_dict # <<>> /\ saved.train # <<>> /\ saved.val # <<>>

\* C19: a call that returned None has left nothing of its own in the per-item
\* storage, and a call that returned a DataPoint, when no other file shares
\* its item id, has stored all three artifacts.
C19_ItemWritesAllOrNothing ==
    \A f \in Files :
        LET id == wav_files[f].item_id IN
        /\ result[f] = "none" =>
              disk[id].mel # f /\ disk[id].quant # f /\ disk[id].pitch # f
        /\ (result[f] = "dp" /\ \A g \in Files \ {f} : wav_files[g].item_id # id) =>
              disk[id] = [mel |-> f, quant |-> f, pitch |-> f]

====
